---------------------------- MODULE Spec2Model ----------------------------
(***************************************************************************)
(* EmbeddingIntentClassifier                                               *)
(* (src/rasa/nlu/classifiers/embedding_intent_classifier.py).              *)
(*                                                                         *)
(* Text is a sequence of code points, so that sorted() and str.split act   *)
(* on it as Python does.  An Optional value is None (the empty tuple) or   *)
(* Some(v) (the one-element tuple).  A dict is a function on its key set,  *)
(* a numpy matrix a function from row ids to functions from column ids.    *)
(***************************************************************************)
EXTENDS Integers, Sequences, FiniteSets, TLC

VARIABLES
    \* the component's configuration (Component.component_config)
    component_config,
    \* fields of the classifier instance
    intent_tokenization_flag, intent_split_symbol, num_neg,
    inv_intent_dict, encoded_all_intents, session, graph, tensors,
    \* the message handed to process last, with what process set on it
    message,
    \* the model directory tree: existing directories and written artifacts
    fs_dirs, fs_files,
    \* the call that ran last, and the exception it raised (None: it
    \* returned)
    last_op, raised,
    \* train's data preparation taken one helper at a time: its input, its
    \* position and its locals
    training_data, pc, intent_dict, session_data,
    \* the instance whose persist wrote the artifact, as persist left it
    persisted_by,
    \* persist calls of several processes on one model directory, taken one
    \* file system call at a time: each call's position and locals
    persisting,
    \* process calls of several threads on one instance, taken one step at
    \* a time: each call's position, locals and message, and the calls that
    \* were under way when it began
    inferring

selfVars == <<intent_tokenization_flag, intent_split_symbol, num_neg,
              inv_intent_dict, encoded_all_intents, session, graph, tensors>>
envVars == <<message, fs_dirs, fs_files, last_op, raised>>
prepVars == <<training_data, pc, intent_dict, session_data>>
callVars == <<persisting, inferring>>
vars == <<component_config, selfVars, envVars, prepVars, persisted_by, callVars>>

None == <<>>
Some(v) == <<v>>
Get(o) == o[1]

-----------------------------------------------------------------------------
(* Bounds and input sets *)

\* longest training set (number of intent examples)
MaxExamples == 3
\* largest configured num_neg of the lifecycle specification
MaxNumNeg == 2
\* most labels of a loaded model in the ranking specification
MaxRankLabels == 11
\* processes persisting to one model directory at the same time
NumPersisters == 2
\* process calls running on one instance at the same time
NumCalls == 2

\* "B", "_a", "a", "a_b", "b_a": upper case sorts before "_", "_" before
\* lower case; "a_b" and "b_a" have the same tokens, "_a" an empty token
LabelNames == {<<66>>, <<95, 97>>, <<97>>, <<97, 95, 98>>, <<98, 95, 97>>}
\* text_features of the examples and messages: one fixed dimension
FeatureVectors == {<<0, 0>>, <<0, 1>>, <<1, 0>>, <<1, 1>>}
\* intent_split_symbol: unset, "", "_", "a"
SplitSymbols == {None, Some(<<>>), Some(<<95>>), Some(<<97>>)}

Example(intent, features) == [intent |-> intent, text_features |-> features]

SeqsUpTo(S, n) == UNION {[1..k -> S] : k \in 0..n}

-----------------------------------------------------------------------------
(* Python built-ins the helpers use *)

Min(a, b) == IF a < b THEN a ELSE b

\* str < str: code point by code point, a proper prefix first
RECURSIVE LexLess(_, _)
LexLess(s, t) ==
    IF s = <<>> THEN t # <<>>
    ELSE IF t = <<>> THEN FALSE
    ELSE IF Head(s) # Head(t) THEN Head(s) < Head(t)
    ELSE LexLess(Tail(s), Tail(t))

\* sorted(set of str)
RECURSIVE sorted(_)
sorted(S) ==
    IF S = {} THEN <<>>
    ELSE LET m == CHOOSE x \in S : \A y \in S \ {x} : LexLess(x, y)
         IN <<m>> \o sorted(S \ {m})

\* {x: idx for idx, x in enumerate(seq)}
enumerate_dict(seq) ==
    [x \in {seq[i] : i \in 1..Len(seq)} |->
        (CHOOSE i \in 1..Len(seq) : seq[i] = x) - 1]

IsPrefix(p, s) == Len(p) <= Len(s) /\ SubSeq(s, 1, Len(p)) = p

\* s.split(sep), sep non-empty: cut at each leftmost occurrence of sep
RECURSIVE SplitFrom(_, _, _)
SplitFrom(s, sep, cur) ==
    IF s = <<>> THEN <<cur>>
    ELSE IF IsPrefix(sep, s)
         THEN <<cur>> \o SplitFrom(SubSeq(s, Len(sep) + 1, Len(s)), sep, <<>>)
         ELSE SplitFrom(Tail(s), sep, Append(cur, Head(s)))

split(s, sep) == SplitFrom(s, sep, <<>>)

Range(seq) == {seq[i] : i \in 1..Len(seq)}

\* bool(X.any())
any(X) == \E i \in 1..Len(X) : X[i] # 0

-----------------------------------------------------------------------------
(* Construction: __init__ and _load_params *)

\* _load_flag_if_tokenize_intents: `not intent_split_symbol` is true of
\* None and of ""
load_flag_default_symbol(config) ==
    [flag |-> config.intent_tokenization_flag,
     symbol |-> IF config.intent_split_symbol = None
                   \/ config.intent_split_symbol = Some(<<>>)
                THEN Some(<<95>>)
                ELSE config.intent_split_symbol]

_load_flag_if_tokenize_intents(config) ==
    [flag |-> IF config.intent_tokenization_flag
                 /\ (config.intent_split_symbol = None
                     \/ config.intent_split_symbol = Some(<<>>))
              THEN FALSE
              ELSE config.intent_tokenization_flag,
     symbol |-> config.intent_split_symbol]

\* the tensor handles __init__ takes, all defaulting to None
TensorNames == {"a_in", "b_in", "sim_all", "pred_confidence", "sim",
                "message_embed", "intent_embed", "all_intents_embed"}
NoTensors == [t \in TensorNames |-> None]

\* a call of the log: the operation, whether its training data had fewer
\* than 2 distinct labels and which labels it had (train), its descriptor
\* (load)
Call(op) == [op |-> op, few |-> FALSE, labels |-> {}, file |-> None, dir |-> None]

NoMessage == [text_features |-> None, intent |-> None, intent_ranking |-> None]

\* no persist call and no process call under way
NoPersist == [pc |-> "idle", level |-> 0, eexist |-> {}, raised |-> None]
NoProcess == [pc |-> "idle", among |-> {}, message_sim |-> None,
              message |-> NoMessage, raised |-> None]
CallsIdle ==
    /\ persisting = [p \in 1..NumPersisters |-> NoPersist]
    /\ inferring = [c \in 1..NumCalls |-> NoProcess]

\* __init__(component_config) with every other argument defaulted
InitSelf(config) ==
    /\ intent_tokenization_flag = _load_flag_if_tokenize_intents(config).flag
    /\ intent_split_symbol = _load_flag_if_tokenize_intents(config).symbol
    /\ num_neg = config.num_neg
    /\ inv_intent_dict = None
    /\ encoded_all_intents = None
    /\ session = None
    /\ graph = None
    /\ tensors = NoTensors

-----------------------------------------------------------------------------
(* Training data helpers *)

\* training_data.intent_examples' intents, as a set
distinct_intents(td) == {td[i].intent : i \in 1..Len(td)}

\* enumerate(distinct_intents) without sorted(): set order, here reversed
create_intent_dict_unsorted(td) ==
    LET srt == sorted(distinct_intents(td))
    IN enumerate_dict([i \in 1..Len(srt) |-> srt[Len(srt) + 1 - i]])

_create_intent_dict(td) == enumerate_dict(sorted(distinct_intents(td)))

_create_intent_token_dict(intents, symbol) ==
    enumerate_dict(sorted(UNION {Range(split(intent, symbol)) : intent \in intents}))

\* np.eye(n)
eye(n) == [i \in 0..(n - 1) |-> [j \in 0..(n - 1) |-> IF i = j THEN 1 ELSE 0]]

\* the inverse of a dict whose values are distinct
inverse(d) == [v \in {d[k] : k \in DOMAIN d} |-> CHOOSE k \in DOMAIN d : d[k] = v]

\* for t in key.split(symbol): row[intent_token_dict[t]] = 1
RECURSIVE SetTokens(_, _, _)
SetTokens(row, tokens, tdict) ==
    IF tokens = <<>> THEN row
    ELSE SetTokens([row EXCEPT ![tdict[Head(tokens)]] = 1], Tail(tokens), tdict)

\* np.zeros((n, m))
zeros(n, m) == [i \in 0..(n - 1) |-> [j \in 0..(m - 1) |-> 0]]

\* the bag of tokens with only the first token of each label set
create_encoded_intents_first_token(flag, symbol, idict) ==
    IF flag
    THEN LET tdict == _create_intent_token_dict(DOMAIN idict, Get(symbol))
             Z == zeros(Cardinality(DOMAIN idict), Cardinality(DOMAIN tdict))
         IN [idx \in DOMAIN Z |->
                LET key == CHOOSE k \in DOMAIN idict : idict[k] = idx
                IN SetTokens(Z[idx], <<Head(split(key, Get(symbol)))>>, tdict)]
    ELSE eye(Cardinality(DOMAIN idict))

_create_encoded_intents(flag, symbol, idict) ==
    IF flag
    THEN LET tdict == _create_intent_token_dict(DOMAIN idict, Get(symbol))
             Z == zeros(Cardinality(DOMAIN idict), Cardinality(DOMAIN tdict))
         IN [idx \in DOMAIN Z |->
                LET key == CHOOSE k \in DOMAIN idict : idict[k] = idx
                IN SetTokens(Z[idx], split(key, Get(symbol)), tdict)]
    ELSE eye(Cardinality(DOMAIN idict))

\* labels misaligned: every example given the label id of the first one
create_session_data_first_label(td, idict, encoded) ==
    LET labels == [i \in 1..Len(td) |-> idict[td[i].intent]]
    IN [X |-> [i \in 1..Len(td) |-> td[i].text_features],
        Y |-> [i \in 1..Len(td) |-> encoded[labels[1]]],
        labels |-> labels]

\* SessionData(X, Y, labels), rows counted from 1 as the examples are
_create_session_data(td, idict, encoded) ==
    LET labels == [i \in 1..Len(td) |-> idict[td[i].intent]]
    IN [X |-> [i \in 1..Len(td) |-> td[i].text_features],
        Y |-> [i \in 1..Len(td) |-> encoded[labels[i]]],
        labels |-> labels]

\* self.num_neg = min(self.num_neg, self._encoded_all_intents.shape[0] - 1)
clamp_num_neg_to_labels(nn, rows) == Min(nn, rows)

clamp_num_neg(nn, rows) == Min(nn, rows - 1)

-----------------------------------------------------------------------------
(* train's data preparation, one helper at a time (train, lines 380-402) *)

PrepFeatures == {<<0, 0>>, <<0, 1>>}
PrepExamples == {Example(n, x) : n \in LabelNames, x \in PrepFeatures}
PrepConfigs ==
    {[intent_tokenization_flag |-> f, intent_split_symbol |-> s, num_neg |-> 20] :
        f \in BOOLEAN, s \in SplitSymbols}

EnvIdle ==
    /\ message = NoMessage
    /\ fs_dirs = {}
    /\ fs_files = <<>>
    /\ last_op = Call("init")
    /\ raised = None

PrepInit ==
    /\ component_config \in PrepConfigs
    /\ InitSelf(component_config)
    /\ EnvIdle
    /\ persisted_by = None
    /\ CallsIdle
    /\ training_data \in {Some(td) : td \in SeqsUpTo(PrepExamples, MaxExamples)}
    /\ pc = "start"
    /\ intent_dict = None
    /\ session_data = None

\* lines 380-389: the label index, the label check, its inverse
PrepIntentDict ==
    /\ pc = "start"
    /\ LET idict == _create_intent_dict(Get(training_data))
       IN /\ intent_dict' = Some(idict)
          /\ IF Cardinality(DOMAIN idict) < 2
             THEN /\ pc' = "skipped"
                  /\ UNCHANGED inv_intent_dict
             ELSE /\ pc' = "indexed"
                  /\ inv_intent_dict' = Some(inverse(idict))
    /\ UNCHANGED <<component_config, intent_tokenization_flag, intent_split_symbol,
                   num_neg, encoded_all_intents, session, graph, tensors,
                   envVars, training_data, session_data, persisted_by, callVars>>

\* lines 390-400: the label representation matrix and the num_neg clamp
PrepEncodedIntents ==
    /\ pc = "indexed"
    /\ LET enc == _create_encoded_intents(intent_tokenization_flag,
                                          intent_split_symbol, Get(intent_dict))
       IN /\ encoded_all_intents' = Some(enc)
          /\ num_neg' = clamp_num_neg(num_neg, Cardinality(DOMAIN enc))
    /\ pc' = "encoded"
    /\ UNCHANGED <<component_config, intent_tokenization_flag, intent_split_symbol,
                   inv_intent_dict, session, graph, tensors,
                   envVars, training_data, intent_dict, session_data,
                   persisted_by, callVars>>

\* line 402
PrepSessionData ==
    /\ pc = "encoded"
    /\ session_data' = Some(_create_session_data(Get(training_data), Get(intent_dict),
                                                 Get(encoded_all_intents)))
    /\ pc' = "prepared"
    /\ UNCHANGED <<component_config, selfVars, envVars, training_data, intent_dict,
                   persisted_by, callVars>>

PrepNext == PrepIntentDict \/ PrepEncodedIntents \/ PrepSessionData

SpecPrep == PrepInit /\ [][PrepNext]_vars

-----------------------------------------------------------------------------
(* Inference: _calculate_message_sim and process *)

\* rasa.nlu.classifiers.INTENT_RANKING_LENGTH
INTENT_RANKING_LENGTH == 10

\* What training leaves in the session: weights that fix, for every input,
\* one confidence per label.  session.run(pred_confidence, {a_in: X}),
\* flattened: a vector over the label ids.
session_run(weights, X, num_labels) ==
    [i \in 0..(num_labels - 1) |->
        (weights.a * i + weights.b * i * X[1] + X[2]) % weights.m]

\* message_sim.argsort(): every order of the ids along which the values
\* ascend (numpy's default sort leaves the order of equal values open)
RECURSIVE ArgsortFrom(_, _)
ArgsortFrom(conf, S) ==
    IF S = {} THEN {<<>>}
    ELSE UNION {{<<i>> \o r : r \in ArgsortFrom(conf, S \ {i})} :
                    i \in {k \in S : \A j \in S : conf[k] <= conf[j]}}

argsort(conf) == ArgsortFrom(conf, DOMAIN conf)

\* seq[::-1]
reversed(seq) == [p \in 1..Len(seq) |-> seq[Len(seq) + 1 - p]]

\* message_sim[::-1].sort(): the values, descending
RECURSIVE SortDescFrom(_, _)
SortDescFrom(conf, S) ==
    IF S = {} THEN <<>>
    ELSE LET k == CHOOSE k \in S : \A j \in S : conf[k] >= conf[j]
         IN <<conf[k]>> \o SortDescFrom(conf, S \ {k})

\* the ids ranked, the confidences left in label order
calculate_message_sim_unsorted(conf, order) ==
    [intent_ids |-> reversed(order),
     message_sim |-> [p \in 1..Cardinality(DOMAIN conf) |-> conf[p - 1]]]

\* order: what argsort returned
_calculate_message_sim(conf, order) ==
    [intent_ids |-> reversed(order),
     message_sim |-> SortDescFrom(conf, DOMAIN conf)]

UnknownIntent == [name |-> None, confidence |-> 0]

\* a label for every input, the all-zero one too
predicts_without_zero_check(X, intent_ids) == Len(intent_ids) > 0

\* line 491: X.any() and intent_ids.size > 0
predicts(X, intent_ids) == any(X) /\ Len(intent_ids) > 0

\* ranking[:INTENT_RANKING_LENGTH]
take(seq, n) == SubSeq(seq, 1, Min(Len(seq), n))

\* lines 485-502: the else branch of process
predict(inv, conf, X, order) ==
    LET sim == _calculate_message_sim(conf, order)
        ranking == take([p \in 1..Len(sim.intent_ids) |->
                            <<sim.intent_ids[p], sim.message_sim[p]>>],
                        INTENT_RANKING_LENGTH)
    IN IF predicts(X, sim.intent_ids)
       THEN [intent |-> [name |-> Some(inv[sim.intent_ids[1]]),
                         confidence |-> sim.message_sim[1]],
             intent_ranking |->
                 [p \in 1..Len(ranking) |->
                     [name |-> Some(inv[ranking[p][1]]),
                      confidence |-> ranking[p][2]]]]
       ELSE [intent |-> UnknownIntent, intent_ranking |-> <<>>]

\* the two message.set calls moved into the else branch: without a session
\* the message keeps its fields unset
process_message_unset(sess, gr, inv, X, order) ==
    IF sess = None
    THEN [text_features |-> Some(X), intent |-> None, intent_ranking |-> None]
    ELSE LET out == predict(Get(inv), session_run(Get(sess).weights, X,
                                                  Get(gr).num_labels), X, order)
         IN [text_features |-> Some(X),
             intent |-> Some(out.intent),
             intent_ranking |-> Some(out.intent_ranking)]

\* process: the message as it is left
process_message(sess, gr, inv, X, order) ==
    LET out == IF sess = None
               THEN [intent |-> UnknownIntent, intent_ranking |-> <<>>]
               ELSE predict(Get(inv), session_run(Get(sess).weights, X,
                                                  Get(gr).num_labels), X, order)
    IN [text_features |-> Some(X),
        intent |-> Some(out.intent),
        intent_ranking |-> Some(out.intent_ranking)]

\* the orders argsort may return for input X
orders(sess, gr, X) ==
    IF sess = None THEN {<<>>}
    ELSE argsort(session_run(Get(sess).weights, X, Get(gr).num_labels))

\* the orders argsort may return in this state for input X
Orders(X) == orders(session, graph, X)

\* the message as process receives it
received(X) == [text_features |-> Some(X), intent |-> None, intent_ranking |-> None]

\* line 459: session.run rejects a fetch or a feed key that is None
process_raises(sess, tens) ==
    sess # None /\ (tens.pred_confidence = None \/ tens.a_in = None)

\* process on message X: every way the call can end, as the exception it
\* raises and the message it leaves
process_results(sess, gr, inv, tens, X) ==
    IF process_raises(sess, tens)
    THEN {[raised |-> Some("TypeError"), message |-> received(X)]}
    ELSE {[raised |-> None, message |-> process_message(sess, gr, inv, X, order)] :
             order \in orders(sess, gr, X)}

Process(X) ==
    /\ \E result \in process_results(session, graph, inv_intent_dict, tensors, X) :
          /\ message' = result.message
          /\ raised' = result.raised
    /\ last_op' = Call("process")
    /\ UNCHANGED <<component_config, selfVars, fs_dirs, fs_files, prepVars,
                   persisted_by, callVars>>

-----------------------------------------------------------------------------
(* train *)

\* the handles train leaves in the instance's tensor fields
TrainedTensors == [t \in TensorNames |-> Some(t)]

too_few_labels_below_one(idict) == Cardinality(DOMAIN idict) < 1

\* line 381
too_few_labels(idict) == Cardinality(DOMAIN idict) < 2

\* a skipped call drops the model the instance holds
Train_resetting_on_skip(td, weights) ==
    LET idict == _create_intent_dict(td)
    IN /\ last_op' = [Call("train") EXCEPT
                         !.few = Cardinality(distinct_intents(td)) < 2,
                         !.labels = distinct_intents(td)]
       /\ raised' = None
       /\ IF too_few_labels(idict)
          THEN /\ inv_intent_dict' = None
               /\ encoded_all_intents' = None
               /\ graph' = None
               /\ session' = None
               /\ tensors' = NoTensors
               /\ UNCHANGED <<intent_tokenization_flag, intent_split_symbol, num_neg>>
          ELSE LET enc == _create_encoded_intents(intent_tokenization_flag,
                                                  intent_split_symbol, idict)
               IN /\ inv_intent_dict' = Some(inverse(idict))
                  /\ encoded_all_intents' = Some(enc)
                  /\ num_neg' = clamp_num_neg(num_neg, Cardinality(DOMAIN enc))
                  /\ graph' = Some([num_labels |-> Cardinality(DOMAIN enc),
                                    collections |-> <<>>])
                  /\ session' = Some([weights |-> weights])
                  /\ tensors' = TrainedTensors
                  /\ UNCHANGED <<intent_tokenization_flag, intent_split_symbol>>
       /\ UNCHANGED <<component_config, message, fs_dirs, fs_files, prepVars,
                      persisted_by, callVars>>

\* weights: what train_tf_dataset leaves in the session
Train(td, weights) ==
    LET idict == _create_intent_dict(td)
    IN /\ last_op' = [Call("train") EXCEPT
                         !.few = Cardinality(distinct_intents(td)) < 2,
                         !.labels = distinct_intents(td)]
       /\ raised' = None
       /\ IF too_few_labels(idict)
          THEN UNCHANGED selfVars
          ELSE LET enc == _create_encoded_intents(intent_tokenization_flag,
                                                  intent_split_symbol, idict)
                   sd == _create_session_data(td, idict, enc)
               IN /\ inv_intent_dict' = Some(inverse(idict))
                  /\ encoded_all_intents' = Some(enc)
                  /\ num_neg' = clamp_num_neg(num_neg, Cardinality(DOMAIN enc))
                  /\ graph' = Some([num_labels |-> Cardinality(DOMAIN enc),
                                    collections |-> <<>>])
                  /\ session' = Some([weights |-> weights])
                  /\ tensors' = TrainedTensors
                  /\ UNCHANGED <<intent_tokenization_flag, intent_split_symbol>>
       /\ UNCHANGED <<component_config, message, fs_dirs, fs_files, prepVars,
                   persisted_by, callVars>>

-----------------------------------------------------------------------------
(* persist and load *)

\* persist without its persist_tensor("pred_confidence", ...) call
PersistedTensors_without_confidence ==
    <<<<"message_placeholder", "a_in">>, <<"intent_placeholder", "b_in">>,
      <<"similarity_all", "sim_all">>, <<"similarity", "sim">>,
      <<"message_embed", "message_embed">>, <<"intent_embed", "intent_embed">>>>

\* persist_tensor(name, self.<field>, graph), in persist's order
PersistedTensors ==
    <<<<"message_placeholder", "a_in">>, <<"intent_placeholder", "b_in">>,
      <<"similarity_all", "sim_all">>, <<"pred_confidence", "pred_confidence">>,
      <<"similarity", "sim">>, <<"message_embed", "message_embed">>,
      <<"intent_embed", "intent_embed">>>>

\* train_utils.persist_tensor: a tensor that is not None replaces the
\* graph collection of that name
RECURSIVE persist_tensors(_, _, _)
persist_tensors(colls, pairs, tens) ==
    IF pairs = <<>> THEN colls
    ELSE LET name == Head(pairs)[1]
             tensor == tens[Head(pairs)[2]]
             next == IF tensor = None THEN colls
                     ELSE [c \in DOMAIN colls \cup {name} |->
                              IF c = name THEN Get(tensor) ELSE colls[c]]
         IN persist_tensors(next, Tail(pairs), tens)

\* train_utils.load_tensor: the first tensor of the collection, or None
load_tensor(colls, name) ==
    IF name \in DOMAIN colls THEN Some(colls[name]) ELSE None

\* the names load asks for, with the field each goes to
LoadedTensors ==
    [a_in |-> "message_placeholder", b_in |-> "intent_placeholder",
     sim_all |-> "similarity_all", pred_confidence |-> "pred_confidence",
     sim |-> "similarity", message_embed |-> "message_embed",
     intent_embed |-> "intent_embed", all_intents_embed |-> "all_intents_embed"]

\* os.makedirs(path): the path and every missing parent
makedirs(dirs, path) == dirs \cup {SubSeq(path, 1, k) : k \in 1..Len(path)}

\* what process and persist read of an instance
Instance(inv, sess, gr, tens) ==
    [inv_intent_dict |-> inv, session |-> sess, graph |-> gr, tensors |-> tens]

\* file_name and model_dir are never None here
Persist(file_name, model_dir) ==
    /\ last_op' = Call("persist")
    /\ raised' = None
    /\ IF session = None
       THEN UNCHANGED <<graph, fs_dirs, fs_files, persisted_by>>
       ELSE LET gr == [Get(graph) EXCEPT
                          !.collections = persist_tensors(@, PersistedTensors, tensors)]
                key == <<model_dir, file_name>>
                artifact == [graph |-> gr,
                             weights |-> Get(session).weights,
                             inv_intent_dict |-> inv_intent_dict]
            IN /\ fs_dirs' = makedirs(fs_dirs, model_dir)
               /\ graph' = Some(gr)
               /\ fs_files' = [k \in DOMAIN fs_files \cup {key} |->
                                  IF k = key THEN artifact ELSE fs_files[k]]
               /\ persisted_by' = Some(Instance(inv_intent_dict, session,
                                                Some(gr), tensors))
    /\ UNCHANGED <<component_config, intent_tokenization_flag, intent_split_symbol,
                   num_neg, inv_intent_dict, encoded_all_intents, session, tensors,
                   message, prepVars, callVars>>

\* bool(x) of an Optional[Text]: a path is kept as the sequence of its
\* components, "" being the empty one
truthy(x) == x # None /\ Get(x) # <<>>

\* line 557
has_descriptor(model_dir, file) == truthy(model_dir) /\ truthy(file)

\* load(meta, model_dir): meta is the component's configuration with the
\* "file" entry persist returned.  An exception leaves the caller without
\* a classifier: the instance at hand stays as it was.
Load(file, model_dir) ==
    /\ last_op' = [Call("load") EXCEPT !.file = file, !.dir = model_dir]
    /\ IF has_descriptor(model_dir, file)
       THEN IF <<Get(model_dir), Get(file)>> \in DOMAIN fs_files
            THEN LET art == fs_files[<<Get(model_dir), Get(file)>>]
                 IN /\ raised' = None
                    /\ intent_tokenization_flag' =
                           _load_flag_if_tokenize_intents(component_config).flag
                    /\ intent_split_symbol' =
                           _load_flag_if_tokenize_intents(component_config).symbol
                    /\ num_neg' = component_config.num_neg
                    /\ inv_intent_dict' = art.inv_intent_dict
                    /\ encoded_all_intents' = None
                    /\ session' = Some([weights |-> art.weights])
                    /\ graph' = Some(art.graph)
                    /\ tensors' = [t \in TensorNames |->
                                      load_tensor(art.graph.collections, LoadedTensors[t])]
            ELSE \* tf.train.import_meta_graph: the .meta file does not exist
                 /\ raised' = Some("IOError")
                 /\ UNCHANGED selfVars
       ELSE IF model_dir = None
            THEN \* os.path.abspath(None), line 602
                 /\ raised' = Some("TypeError")
                 /\ UNCHANGED selfVars
            ELSE \* cls(component_config=meta)
                 /\ raised' = None
                 /\ intent_tokenization_flag' =
                        _load_flag_if_tokenize_intents(component_config).flag
                 /\ intent_split_symbol' =
                        _load_flag_if_tokenize_intents(component_config).symbol
                 /\ num_neg' = component_config.num_neg
                 /\ inv_intent_dict' = None
                 /\ encoded_all_intents' = None
                 /\ session' = None
                 /\ graph' = None
                 /\ tensors' = NoTensors
    /\ UNCHANGED <<component_config, message, fs_dirs, fs_files, prepVars,
                   persisted_by, callVars>>

-----------------------------------------------------------------------------
(* The classifier's life: train, process, persist, load in any order *)

\* training sets with 0, 1, 2 and 3 distinct labels, in and out of order,
\* with repeated labels
LifeTrainingSets ==
    {<<>>,
     <<Example(<<97>>, <<0, 1>>)>>,
     <<Example(<<97, 95, 98>>, <<1, 1>>), Example(<<97, 95, 98>>, <<0, 1>>)>>,
     <<Example(<<98, 95, 97>>, <<0, 1>>), Example(<<97>>, <<1, 0>>),
       Example(<<98, 95, 97>>, <<1, 1>>)>>,
     <<Example(<<98, 95, 97>>, <<0, 1>>), Example(<<97>>, <<1, 0>>),
       Example(<<97, 95, 98>>, <<1, 1>>)>>}
LifeConfigs ==
    {[intent_tokenization_flag |-> f, intent_split_symbol |-> Some(<<95>>),
      num_neg |-> k] : f \in BOOLEAN, k \in 1..MaxNumNeg}
LifeWeights == {[a |-> 1, b |-> 1, m |-> 2], [a |-> 1, b |-> 0, m |-> 3]}
LifeInputs == {<<0, 0>>, <<0, 1>>, <<1, 1>>}
\* model_dir: None, "", "d/e" (where models are persisted)
LifeDirs == {None, Some(<<>>), Some(<<"d", "e">>)}
\* meta's "file": None, "f"
LifeFiles == {None, Some(<<102>>)}

PrepIdle ==
    /\ training_data = None
    /\ pc = "idle"
    /\ intent_dict = None
    /\ session_data = None

Init ==
    /\ component_config \in LifeConfigs
    /\ InitSelf(component_config)
    /\ EnvIdle
    /\ PrepIdle
    /\ persisted_by = None
    /\ CallsIdle

Next ==
    \/ \E td \in LifeTrainingSets, w \in LifeWeights : Train(td, w)
    \/ \E X \in LifeInputs : Process(X)
    \/ Persist(<<102>>, <<"d", "e">>)
    \/ \E file \in LifeFiles, dir \in LifeDirs : Load(file, dir)

Spec == Init /\ [][Next]_vars

-----------------------------------------------------------------------------
(* Ranking: process on a loaded model of up to MaxRankLabels labels *)

\* weights under which few labels share a confidence
RankWeights == {[a |-> 1, b |-> 1, m |-> 7], [a |-> 3, b |-> 2, m |-> 7],
                [a |-> 2, b |-> 1, m |-> 5]}

\* the model persist wrote and load read back: labels "a", "b", ... of a
\* training run with n distinct labels
RankArtifact(n, w) ==
    [graph |-> [num_labels |-> n,
                collections |-> persist_tensors(<<>>, PersistedTensors, TrainedTensors)],
     weights |-> w,
     inv_intent_dict |-> Some([i \in 0..(n - 1) |-> <<97 + i>>])]

RankInit ==
    /\ component_config = [intent_tokenization_flag |-> FALSE,
                           intent_split_symbol |-> Some(<<95>>), num_neg |-> 20]
    /\ intent_tokenization_flag = _load_flag_if_tokenize_intents(component_config).flag
    /\ intent_split_symbol = _load_flag_if_tokenize_intents(component_config).symbol
    /\ num_neg = component_config.num_neg
    /\ encoded_all_intents = None
    /\ \E n \in 2..MaxRankLabels, w \in RankWeights :
          LET art == RankArtifact(n, w)
          IN /\ inv_intent_dict = art.inv_intent_dict
             /\ session = Some([weights |-> art.weights])
             /\ graph = Some(art.graph)
             /\ tensors = [t \in TensorNames |->
                              load_tensor(art.graph.collections, LoadedTensors[t])]
             /\ fs_files = (<<<<"d", "e">>, <<102>>>> :> art)
             /\ persisted_by = Some(Instance(art.inv_intent_dict,
                                             Some([weights |-> art.weights]),
                                             Some(art.graph), TrainedTensors))
    /\ fs_dirs = makedirs({}, <<"d", "e">>)
    /\ message = NoMessage
    /\ last_op = [Call("load") EXCEPT !.file = Some(<<102>>), !.dir = Some(<<"d", "e">>)]
    /\ raised = None
    /\ PrepIdle
    /\ CallsIdle

RankNext == \E X \in LifeInputs : Process(X)

SpecRank == RankInit /\ [][RankNext]_vars

-----------------------------------------------------------------------------
(* Persisting: several processes persist one trained model, each from its  *)
(* own copy of the instance, to one model directory.  os.makedirs is taken *)
(* one file system call at a time.                                         *)

\* os.path.dirname(checkpoint) and file_name of the persist calls
PersistDir == <<"d", "e">>
PersistFile == <<102>>

\* the first k components of a path
prefix(path, k) == SubSeq(path, 1, k)

\* the handler lets every OSError go on
persist_reraises_any(errno) == TRUE

\* line 524: if e.errno != errno.EEXIST: raise
persist_reraises(errno) == errno # "EEXIST"

\* the instance of a train call on td that left weights in the session
TrainedInit(td, weights) ==
    /\ intent_tokenization_flag = _load_flag_if_tokenize_intents(component_config).flag
    /\ intent_split_symbol = _load_flag_if_tokenize_intents(component_config).symbol
    /\ LET idict == _create_intent_dict(td)
           enc == _create_encoded_intents(intent_tokenization_flag,
                                          intent_split_symbol, idict)
       IN /\ inv_intent_dict = Some(inverse(idict))
          /\ encoded_all_intents = Some(enc)
          /\ num_neg = clamp_num_neg(component_config.num_neg, Cardinality(DOMAIN enc))
          /\ graph = Some([num_labels |-> Cardinality(DOMAIN enc),
                           collections |-> <<>>])
          /\ session = Some([weights |-> weights])
          /\ tensors = TrainedTensors
    /\ last_op = [Call("train") EXCEPT !.labels = distinct_intents(td)]
    /\ raised = None
    /\ message = NoMessage

PersistInit ==
    /\ component_config \in {c \in LifeConfigs : c.num_neg = 1}
    /\ \E td \in {t \in LifeTrainingSets : ~too_few_labels(_create_intent_dict(t))},
          w \in LifeWeights : TrainedInit(td, w)
    \* the model directory: missing, its parent there, there
    /\ fs_dirs \in {makedirs({}, prefix(PersistDir, k)) : k \in 0..Len(PersistDir)}
    /\ fs_files = <<>>
    /\ persisted_by = None
    /\ PrepIdle
    /\ CallsIdle

\* lines 513-519: persist is called and, with a session, calls
\* os.makedirs(os.path.dirname(checkpoint))
PersistBegin(p) ==
    /\ persisting[p].pc \in {"idle", "done"}
    /\ persisting' = [persisting EXCEPT ![p] =
           IF session = None
           THEN [NoPersist EXCEPT !.pc = "done"]
           ELSE [NoPersist EXCEPT !.pc = "exists", !.level = Len(PersistDir)]]
    /\ UNCHANGED <<component_config, selfVars, envVars, prepVars, persisted_by,
                   inferring>>

\* os.makedirs(name), name the first level components: with a parent that
\* does not exist it first calls itself on the parent
PersistExists(p) ==
    LET k == persisting[p].level
    IN /\ persisting[p].pc = "exists"
       /\ persisting' = [persisting EXCEPT ![p] =
              IF k > 1 /\ prefix(PersistDir, k - 1) \notin fs_dirs
              THEN [@ EXCEPT !.level = k - 1]
              ELSE [@ EXCEPT !.pc = "mkdir"]]
       /\ UNCHANGED <<component_config, selfVars, envVars, prepVars, persisted_by,
                      inferring>>

\* what mkdir(name) fails with in a directory tree
mkdir_errno(dirs, name) ==
    IF name \in dirs THEN Some("EEXIST")
    ELSE IF Len(name) > 1 /\ prefix(name, Len(name) - 1) \notin dirs
         THEN Some("ENOENT")
         ELSE None

\* mkdir(name) of os.makedirs.  os.makedirs passes over the EEXIST of a
\* parent; every other error, and the EEXIST of the directory itself,
\* reaches persist's handler (lines 520-525).
PersistMkdir(p) ==
    LET k == persisting[p].level
        name == prefix(PersistDir, k)
        errno == mkdir_errno(fs_dirs, name)
        in_persist == errno # None /\ ~(errno = Some("EEXIST") /\ k < Len(PersistDir))
    IN /\ persisting[p].pc = "mkdir"
       /\ fs_dirs' = IF errno = None THEN fs_dirs \cup {name} ELSE fs_dirs
       /\ persisting' = [persisting EXCEPT ![p] =
              IF in_persist /\ persist_reraises(Get(errno))
              THEN [@ EXCEPT !.pc = "done", !.raised = errno]
              ELSE [@ EXCEPT !.pc = IF k < Len(PersistDir) THEN "mkdir" ELSE "write",
                             !.level = IF k < Len(PersistDir) THEN k + 1 ELSE k,
                             !.eexist = IF errno = Some("EEXIST") THEN @ \cup {k}
                                        ELSE @]]
       /\ UNCHANGED <<component_config, selfVars, message, fs_files, last_op, raised,
                      prepVars, persisted_by, inferring>>

\* lines 526-545: the tensors are added to the graph, the checkpoint and
\* the pickled label index written; saver.save refuses a missing directory
PersistWrite(p) ==
    /\ persisting[p].pc = "write"
    /\ IF PersistDir \notin fs_dirs
       THEN /\ persisting' = [persisting EXCEPT ![p].pc = "done",
                                                ![p].raised = Some("ValueError")]
            /\ UNCHANGED <<graph, fs_files, persisted_by>>
       ELSE LET gr == [Get(graph) EXCEPT
                          !.collections = persist_tensors(@, PersistedTensors, tensors)]
                key == <<PersistDir, PersistFile>>
                artifact == [graph |-> gr,
                             weights |-> Get(session).weights,
                             inv_intent_dict |-> inv_intent_dict]
            IN /\ persisting' = [persisting EXCEPT ![p].pc = "done"]
               /\ graph' = Some(gr)
               /\ fs_files' = [f \in DOMAIN fs_files \cup {key} |->
                                  IF f = key THEN artifact ELSE fs_files[f]]
               /\ persisted_by' = Some(Instance(inv_intent_dict, session,
                                                Some(gr), tensors))
    /\ UNCHANGED <<component_config, intent_tokenization_flag, intent_split_symbol,
                   num_neg, inv_intent_dict, encoded_all_intents, session, tensors,
                   message, fs_dirs, last_op, raised, prepVars, inferring>>

PersistNext ==
    \E p \in 1..NumPersisters :
        \/ PersistBegin(p)
        \/ PersistExists(p)
        \/ PersistMkdir(p)
        \/ PersistWrite(p)

SpecPersist == PersistInit /\ [][PersistNext]_vars

-----------------------------------------------------------------------------
(* Inference by several threads: process calls on one loaded instance,     *)
(* each on its own message, taken one step at a time.                      *)

\* message_sim kept in a field of the instance: every call reads what the
\* last session.run left there
store_on_instance(calls, c, conf) ==
    [k \in DOMAIN calls |-> [calls[k] EXCEPT !.message_sim = Some(conf)]]

\* line 459: message_sim is a local of the call
store(calls, c, conf) == [calls EXCEPT ![c].message_sim = Some(conf)]

\* the calls between their first and their last step
UnderWay == {k \in DOMAIN inferring : inferring[k].pc \notin {"idle", "done"}}

\* load's instance: restored from an artifact of 2 or 3 labels, or the one
\* without a model
InferInit ==
    /\ component_config = [intent_tokenization_flag |-> FALSE,
                           intent_split_symbol |-> Some(<<95>>), num_neg |-> 20]
    /\ intent_tokenization_flag = _load_flag_if_tokenize_intents(component_config).flag
    /\ intent_split_symbol = _load_flag_if_tokenize_intents(component_config).symbol
    /\ num_neg = component_config.num_neg
    /\ encoded_all_intents = None
    /\ \/ \E n \in 2..3, w \in LifeWeights :
             LET art == RankArtifact(n, w)
             IN /\ inv_intent_dict = art.inv_intent_dict
                /\ session = Some([weights |-> art.weights])
                /\ graph = Some(art.graph)
                /\ tensors = [t \in TensorNames |->
                                 load_tensor(art.graph.collections, LoadedTensors[t])]
                /\ fs_files = (<<<<"d", "e">>, <<102>>>> :> art)
                /\ persisted_by = Some(Instance(art.inv_intent_dict,
                                                Some([weights |-> art.weights]),
                                                Some(art.graph), TrainedTensors))
                /\ last_op = [Call("load") EXCEPT !.file = Some(<<102>>),
                                                  !.dir = Some(<<"d", "e">>)]
       \/ /\ inv_intent_dict = None
          /\ session = None
          /\ graph = None
          /\ tensors = NoTensors
          /\ fs_files = <<>>
          /\ persisted_by = None
          /\ last_op = [Call("load") EXCEPT !.dir = Some(<<"d", "e">>)]
    /\ fs_dirs = makedirs({}, <<"d", "e">>)
    /\ message = NoMessage
    /\ raised = None
    /\ PrepIdle
    /\ CallsIdle

\* lines 471-483: process is called on a message; without a session it sets
\* the defaults on it and returns
InferBegin(c, X) ==
    /\ inferring[c].pc \in {"idle", "done"}
    /\ inferring' = [inferring EXCEPT ![c] =
           IF session = None
           THEN [NoProcess EXCEPT
                    !.pc = "done", !.among = UnderWay,
                    !.message = process_message(session, graph, inv_intent_dict,
                                                X, <<>>)]
           ELSE [NoProcess EXCEPT
                    !.pc = "run", !.among = UnderWay, !.message = received(X)]]
    /\ UNCHANGED <<component_config, selfVars, envVars, prepVars, persisted_by,
                   persisting>>

\* line 459: session.run
InferRun(c) ==
    /\ inferring[c].pc = "run"
    /\ inferring' =
           IF process_raises(session, tensors)
           THEN [inferring EXCEPT ![c].pc = "done", ![c].raised = Some("TypeError")]
           ELSE [store(inferring, c,
                       session_run(Get(session).weights,
                                   Get(inferring[c].message.text_features),
                                   Get(graph).num_labels))
                    EXCEPT ![c].pc = "rank"]
    /\ UNCHANGED <<component_config, selfVars, envVars, prepVars, persisted_by,
                   persisting>>

\* lines 461-505: the ranking, the names of the label index, the message
InferFinish(c) ==
    /\ inferring[c].pc = "rank"
    /\ \E order \in argsort(Get(inferring[c].message_sim)) :
          LET X == Get(inferring[c].message.text_features)
              out == predict(Get(inv_intent_dict), Get(inferring[c].message_sim),
                             X, order)
          IN inferring' = [inferring EXCEPT
                 ![c].pc = "done",
                 ![c].message = [text_features |-> Some(X),
                                 intent |-> Some(out.intent),
                                 intent_ranking |-> Some(out.intent_ranking)]]
    /\ UNCHANGED <<component_config, selfVars, envVars, prepVars, persisted_by,
                   persisting>>

InferNext ==
    \E c \in 1..NumCalls :
        \/ \E X \in LifeInputs : InferBegin(c, X)
        \/ InferRun(c)
        \/ InferFinish(c)

SpecInfer == InferInit /\ [][InferNext]_vars

-----------------------------------------------------------------------------
(* Properties of the data preparation *)

PrepLabels == distinct_intents(Get(training_data))
PrepIndexed == pc \in {"indexed", "encoded", "prepared"}
PrepEncoded == pc \in {"encoded", "prepared"}
\* the configuration leaves tokenization on: the flag set, a delimiter given
TokenizationOn ==
    /\ component_config.intent_tokenization_flag
    /\ component_config.intent_split_symbol \notin {None, Some(<<>>)}
\* the number of members of S that sort before x
Rank(x, S) == Cardinality({y \in S : LexLess(y, x)})

\* C1: with at least 2 distinct labels, the label index gives every label
\* the number of distinct labels that sort before it (so the ids are
\* 0..num_labels-1 in lexicographic order, a function of the label set
\* alone), and inv_intent_dict is its inverse in both directions.
C1_LabelIndexBijection ==
    PrepIndexed =>
        LET idict == Get(intent_dict)
            inv == Get(inv_intent_dict)
            n == Cardinality(PrepLabels)
        IN /\ n >= 2
           /\ DOMAIN idict = PrepLabels
           /\ \A x \in PrepLabels : idict[x] = Rank(x, PrepLabels)
           /\ {idict[x] : x \in PrepLabels} = 0..(n - 1)
           /\ DOMAIN inv = 0..(n - 1)
           /\ \A x \in PrepLabels : inv[idict[x]] = x
           /\ \A i \in 0..(n - 1) : idict[inv[i]] = i

\* three examples, two distinct labels, the greater label first
C1_Witness ==
    /\ pc = "indexed"
    /\ Len(Get(training_data)) = 3
    /\ Cardinality(PrepLabels) = 2
    /\ LexLess(Get(training_data)[3].intent, Get(training_data)[1].intent)
    /\ Get(training_data)[2].intent = Get(training_data)[1].intent

\* C2: the label representation matrix has one row per label, and with
\* tokenization off (the flag unset, or set with an empty or unset
\* delimiter) it is the num_labels x num_labels identity matrix.
C2_RowsAndIdentity ==
    PrepEncoded =>
        LET enc == Get(encoded_all_intents)
            n == Cardinality(PrepLabels)
        IN /\ DOMAIN enc = 0..(n - 1)
           /\ ~TokenizationOn =>
                \A i \in 0..(n - 1) :
                    /\ DOMAIN enc[i] = 0..(n - 1)
                    /\ \A j \in 0..(n - 1) : enc[i][j] = IF i = j THEN 1 ELSE 0

\* the flag set without a delimiter, three labels encoded
C2_Witness ==
    /\ pc = "encoded"
    /\ component_config.intent_tokenization_flag
    /\ component_config.intent_split_symbol \in {None, Some(<<>>)}
    /\ Cardinality(PrepLabels) = 3
    /\ Get(encoded_all_intents) = eye(3)

\* all tokens of the labels under the configured delimiter
PrepTokens ==
    UNION {Range(split(x, Get(component_config.intent_split_symbol))) : x \in PrepLabels}

\* C3: with tokenization on, the matrix has one column per distinct token,
\* column j standing for the token that j tokens sort before, and entry
\* (i, j) is 1 when that token is in the split of the label with id i and
\* 0 otherwise.
C3_BagOfTokens ==
    (PrepEncoded /\ TokenizationOn) =>
        LET enc == Get(encoded_all_intents)
            sym == Get(component_config.intent_split_symbol)
            m == Cardinality(PrepTokens)
        IN \A x \in PrepLabels :
              LET row == enc[Rank(x, PrepLabels)]
              IN /\ DOMAIN row = 0..(m - 1)
                 /\ \A t \in PrepTokens :
                       row[Rank(t, PrepTokens)] =
                           IF t \in Range(split(x, sym)) THEN 1 ELSE 0

\* "_a" and "a_b" split on "_": the row of "a_b" has two ones, the empty
\* token of "_a" has a column of its own
C3_Witness ==
    /\ pc = "encoded"
    /\ TokenizationOn
    /\ component_config.intent_split_symbol = Some(<<95>>)
    /\ PrepLabels = {<<95, 97>>, <<97, 95, 98>>}
    /\ Get(encoded_all_intents) = (0 :> (0 :> 1 @@ 1 :> 1 @@ 2 :> 0)
                                   @@ 1 :> (0 :> 0 @@ 1 :> 1 @@ 2 :> 1))

\* C4: X, Y and labels have one entry per example, in the examples' order:
\* X[i] is example i's features, labels[i] the id of its intent, Y[i] row
\* labels[i] of the label representation matrix.
C4_SessionDataAligned ==
    pc = "prepared" =>
        LET sd == Get(session_data)
            td == Get(training_data)
        IN /\ DOMAIN sd.X = 1..Len(td)
           /\ DOMAIN sd.Y = 1..Len(td)
           /\ DOMAIN sd.labels = 1..Len(td)
           /\ \A i \in 1..Len(td) :
                 /\ sd.X[i] = td[i].text_features
                 /\ sd.labels[i] = Rank(td[i].intent, PrepLabels)
                 /\ sd.labels[i] = Get(intent_dict)[td[i].intent]
                 /\ sd.Y[i] = Get(encoded_all_intents)[sd.labels[i]]

\* three examples of three labels, not in label order, with different
\* features
C4_Witness ==
    /\ pc = "prepared"
    /\ Len(Get(training_data)) = 3
    /\ Cardinality(PrepLabels) = 3
    /\ Get(session_data).labels = <<2, 0, 1>>
    /\ Get(session_data).X[1] # Get(session_data).X[2]

-----------------------------------------------------------------------------
(* Properties of the classifier's life *)

NumLabels == Cardinality(DOMAIN Get(inv_intent_dict))
IsUnknown(msg) ==
    msg.intent = Some(UnknownIntent) /\ msg.intent_ranking = Some(<<>>)
ZeroInput(msg) == msg.text_features # None /\ ~any(Get(msg.text_features))

\* C5: after every train call that got past the label check, num_neg (the
\* field _build_tf_train_graph hands to calculate_loss_acc) is at most the
\* number of labels of that call minus one.
C5_NumNegClamped ==
    (last_op.op = "train" /\ ~last_op.few) => num_neg <= NumLabels - 1

\* a second train call, on 3 labels, with num_neg still clamped to 1 by an
\* earlier call on 2 labels
C5_Witness ==
    /\ last_op.op = "train"
    /\ ~last_op.few
    /\ NumLabels = 3
    /\ component_config.num_neg = 2
    /\ num_neg = 1

\* C6 as claimed: a train call on fewer than 2 distinct labels returns,
\* creates no session and no label index, and the process call after it
\* leaves the unknown intent and an empty ranking.
C6_SkippedTrainThenUnknown ==
    [][/\ (last_op'.op = "train" /\ last_op'.few) =>
              (raised' = None /\ UNCHANGED <<session, inv_intent_dict>>)
       /\ (last_op.op = "train" /\ last_op.few /\ last_op'.op = "process") =>
              IsUnknown(message')]_vars

\* C6, amended: a train call on fewer than 2 distinct labels returns and
\* creates no session and no label index; when the classifier holds no
\* session after it, the process call after it leaves the unknown intent
\* and an empty ranking.
C6_SkippedTrainNoModel ==
    [][/\ (last_op'.op = "train" /\ last_op'.few) =>
              (raised' = None /\ UNCHANGED <<session, inv_intent_dict>>)
       /\ (last_op.op = "train" /\ last_op.few /\ session = None
           /\ last_op'.op = "process") =>
              IsUnknown(message')]_vars

\* a train call on one label skipped by a classifier that holds no model,
\* after it processed a message
C6_Witness ==
    /\ last_op.op = "train"
    /\ last_op.few
    /\ raised = None
    /\ session = None
    /\ inv_intent_dict = None
    /\ message.text_features = Some(<<1, 1>>)

\* C7: process on an all-zero feature vector leaves the unknown intent and
\* an empty ranking, whatever the classifier holds.
C7_ZeroInputUnknown ==
    (last_op.op = "process" /\ ZeroInput(message)) => IsUnknown(message)

\* an all-zero input processed by a loaded model
C7_Witness ==
    /\ last_op.op = "process"
    /\ ZeroInput(message)
    /\ session # None
    /\ encoded_all_intents = None
    /\ NumLabels = 3
    /\ IsUnknown(message)

\* C8: process without a session returns, leaving the unknown intent and
\* an empty ranking, whatever the input.
C8_NoSessionUnknown ==
    (last_op.op = "process" /\ session = None) =>
        (raised = None /\ IsUnknown(message))

\* a non-zero input processed after a load that found no model, with a
\* persisted model on disk
C8_Witness ==
    /\ last_op.op = "process"
    /\ session = None
    /\ fs_files # <<>>
    /\ message.text_features = Some(<<0, 1>>)
    /\ IsUnknown(message)

\* the label id of a name
IdOf(name) == CHOOSE i \in DOMAIN Get(inv_intent_dict) : Get(inv_intent_dict)[i] = name

\* C9: on a model and a non-zero input, every result of
\* _calculate_message_sim is a permutation of the label ids with
\* non-increasing scores, each the confidence of the id at its position;
\* the message's ranking is the first min(num_labels,
\* INTENT_RANKING_LENGTH) labels of such a ranking (no label left out has
\* a greater confidence than one kept), and intent is its first entry.
C9_DescendingRanking ==
    (last_op.op = "process" /\ session # None /\ ~ZeroInput(message)) =>
        LET X == Get(message.text_features)
            conf == session_run(Get(session).weights, X, Get(graph).num_labels)
            n == NumLabels
            ranking == Get(message.intent_ranking)
            k == Len(ranking)
        IN /\ \A order \in argsort(conf) :
                 LET sim == _calculate_message_sim(conf, order)
                 IN /\ Len(sim.intent_ids) = n /\ Len(sim.message_sim) = n
                    /\ Range(sim.intent_ids) = 0..(n - 1)
                    /\ \A p \in 1..n : sim.message_sim[p] = conf[sim.intent_ids[p]]
                    /\ \A p \in 1..(n - 1) : sim.message_sim[p] >= sim.message_sim[p + 1]
           /\ k = Min(n, INTENT_RANKING_LENGTH)
           /\ Get(message.intent) = ranking[1]
           /\ \A p \in 1..k :
                 /\ ranking[p].name # None
                 /\ Get(ranking[p].name) \in Range([i \in 1..n |-> Get(inv_intent_dict)[i - 1]])
                 /\ ranking[p].confidence = conf[IdOf(Get(ranking[p].name))]
           /\ \A p, q \in 1..k : p < q =>
                 /\ ranking[p].name # ranking[q].name
                 /\ ranking[p].confidence >= ranking[q].confidence
           /\ \A i \in 0..(n - 1) :
                 (\A p \in 1..k : Get(ranking[p].name) # Get(inv_intent_dict)[i]) =>
                     conf[i] <= ranking[k].confidence

\* 11 labels ranked, the ranking cut to 10, two of them with one confidence
C9_Witness ==
    /\ last_op.op = "process"
    /\ session # None
    /\ ~ZeroInput(message)
    /\ NumLabels = 11
    /\ Len(Get(message.intent_ranking)) = 10
    /\ \E p \in 1..9 : Get(message.intent_ranking)[p].confidence
                         = Get(message.intent_ranking)[p + 1].confidence

\* C10 as claimed: a load whose descriptor has no file name, or no
\* directory, or names a path that holds no model, returns a classifier
\* without a session.
C10_LoadWithoutModelReturns ==
    (/\ last_op.op = "load"
     /\ \/ ~truthy(last_op.file)
        \/ ~truthy(last_op.dir)
        \/ <<Get(last_op.dir), Get(last_op.file)>> \notin DOMAIN fs_files) =>
        (raised = None /\ session = None)

-----------------------------------------------------------------------------
(* Properties of concurrent persist calls *)

PersistDirExists == \A k \in 1..Len(PersistDir) : prefix(PersistDir, k) \in fs_dirs

\* C11: however the persist calls of the processes interleave, no call
\* raises, the model directory and all its parents exist when a call goes on
\* to write its files, and a call that returned has left its artifact there.
C11_ConcurrentPersistCreatesDir ==
    \A p \in DOMAIN persisting :
        /\ persisting[p].raised = None
        /\ persisting[p].pc = "write" => PersistDirExists
        /\ persisting[p].pc = "done" =>
               PersistDirExists /\ <<PersistDir, PersistFile>> \in DOMAIN fs_files

\* every call has returned, and one of them found each directory of the
\* path created by another process after it had seen the parent missing
C11_Witness ==
    /\ \A p \in DOMAIN persisting : persisting[p].pc = "done"
    /\ \E p \in DOMAIN persisting : persisting[p].eexist = 1..Len(PersistDir)

-----------------------------------------------------------------------------
(* Properties of persist followed by load *)

\* load has just built the instance at hand from the artifact persist wrote
RoundTripped ==
    /\ last_op.op = "load"
    /\ raised = None
    /\ has_descriptor(last_op.dir, last_op.file)

\* the ways process on X can end on the instance at hand and on the
\* instance that persisted
ResultsHere(X) == process_results(session, graph, inv_intent_dict, tensors, X)
ResultsThere(X) ==
    LET m == Get(persisted_by)
    IN process_results(m.session, m.graph, m.inv_intent_dict, m.tensors, X)

\* C12: the classifier load builds from what persist wrote has the label
\* index of the classifier that persisted, and process on it ends, for every
\* probe input, as process on the classifier that persisted does: the same
\* top intent, the same ranked names and confidences (for labels of equal
\* confidence, the same orders argsort may give).
C12_RoundTrip ==
    RoundTripped =>
        /\ inv_intent_dict = Get(persisted_by).inv_intent_dict
        /\ \A X \in FeatureVectors : ResultsHere(X) = ResultsThere(X)

\* a model of three labels was persisted and loaded, and process on it
\* reports a label for some probe
C12_Witness ==
    /\ RoundTripped
    /\ session # None
    /\ Cardinality(DOMAIN Get(inv_intent_dict)) = 3
    /\ \E X \in FeatureVectors : \E result \in ResultsHere(X) :
          result.raised = None /\ Get(result.message.intent).name # None

-----------------------------------------------------------------------------
(* Properties of concurrent process calls *)

\* how call c ended
Ended(call) == [raised |-> call.raised, message |-> call.message]

\* C13: no step of a process call changes the instance (its session, graph,
\* label index, tensor handles, hyperparameters) or the model directory,
\* and whatever other process calls run in between, a call ends as a
\* process call on its message running alone ends.
C13_ProcessReadOnly ==
    [][/\ UNCHANGED <<component_config, selfVars, fs_dirs, fs_files>>
       /\ \A c \in DOMAIN inferring :
             inferring'[c].pc = "done" /\ inferring[c].pc # "done" =>
                 Ended(inferring'[c]) \in
                     process_results(session, graph, inv_intent_dict, tensors,
                                     Get(inferring'[c].message.text_features))]_vars

\* a call that began while another call was under way has reported a
\* label, and a call on another message is between its steps
C13_Witness ==
    \E c, k \in DOMAIN inferring :
        /\ inferring[c].pc = "done"
        /\ inferring[c].among = {k}
        /\ Get(inferring[c].message.intent).name # None
        /\ inferring[k].pc = "rank"
        /\ inferring[k].message.text_features # inferring[c].message.text_features

-----------------------------------------------------------------------------
(* Properties of the restored handles and of skipped train calls *)

\* C14: after load has built an instance from what persist wrote, every
\* tensor handle that was set in the instance that persisted is in the
\* graph under the name load asks for and is set in the loaded instance.
C14_RestoredHandlesSet ==
    RoundTripped =>
        \A t \in TensorNames :
            Get(persisted_by).tensors[t] # None =>
                /\ LoadedTensors[t] \in DOMAIN Get(graph).collections
                /\ tensors[t] # None

\* the label names of a label index
LabelsOf(inv) == {inv[i] : i \in DOMAIN inv}

\* C15: a train call on fewer than 2 distinct labels changes no field of the
\* instance; a train call on 2 or more leaves a session, the label index of
\* that call's labels and a graph and label matrix of as many labels; and a
\* session is held only together with a label index of the graph's size.
C15_SkippedTrainKeepsModel ==
    [][/\ last_op'.op = "train" /\ last_op'.few => UNCHANGED selfVars
       /\ last_op'.op = "train" /\ ~last_op'.few =>
              /\ session' # None
              /\ inv_intent_dict' # None
              /\ LabelsOf(Get(inv_intent_dict')) = last_op'.labels
              /\ Get(graph').num_labels = Cardinality(last_op'.labels)
              /\ Cardinality(DOMAIN Get(encoded_all_intents')) =
                     Cardinality(last_op'.labels)
       /\ session' # None =>
              /\ inv_intent_dict' # None
              /\ Cardinality(DOMAIN Get(inv_intent_dict')) = Get(graph').num_labels]_vars

\* a train call on one label was skipped on an instance that holds a
\* trained model of three labels, label matrix included
C15_Witness ==
    /\ last_op.op = "train"
    /\ last_op.few
    /\ Cardinality(last_op.labels) = 1
    /\ session # None
    /\ encoded_all_intents # None
    /\ Cardinality(DOMAIN Get(inv_intent_dict)) = 3

=============================================================================
